---- MODULE Spec2Model ----
(***************************************************************************)
(* Price-migration engine (createMigration, sendMigrationEmails,           *)
(* executeMigration, cancelMigration) and usage consolidator               *)
(* (consolidateOldSessions) of the Open Word admin dashboard.              *)
(*                                                                         *)
(* Every handler is an async function: it is cut into one action per       *)
(* await that touches the Ledger (Supabase), the Subscription Provider     *)
(* (Stripe) or the Notifier, so that invocations interleave exactly where  *)
(* the Node.js event loop lets them.  Code that runs between two awaits    *)
(* belongs to the action of the await before it.                           *)
(*                                                                         *)
(* Environment: the Provider (retrieve, update) and the Notifier may fail  *)
(* on any call.  The Ledger calls of the migration engine succeed, with    *)
(* two exceptions: the duplicate-key error of an insert, and, in SendSpec, *)
(* the final update of sendMigrationEmails, whose error the code does not  *)
(* look at.  The Ledger calls of the consolidator and the scheduler's poll *)
(* may each return an error.  The clock advances in SchedSpec and stands   *)
(* still in the other specifications.                                      *)
(*                                                                         *)
(* proc[p].afterFullRun and proc[p].providerCalls, stripe_update_log,      *)
(* email_log, history, scheduler.startup and the polledAt of a scheduler     *)
(* body observe the run (what a call                                      *)
(* log would show); no action reads them.                                  *)
(***************************************************************************)
EXTENDS Integers, Sequences, FiniteSets, TLC

VARIABLES
    now,                        \* the wall clock (new Date()), in days
    price_migrations,           \* Ledger table price_migrations, by id
    price_migration_customers,  \* Ledger table price_migration_customers (row id = position)
    stripe_price,               \* Provider: price id of each organisation's subscription item
    stripe_update_log,          \* Provider: subscriptions.update calls received, per (migration, organisation)
    email_log,                  \* Notifier: notices delivered, per (migration, organisation)
    proc,                       \* the invocations in flight, one record per slot
    calls,                      \* invocations started so far
    history,                    \* what was asked of each migration, and in which order
    scheduler,                  \* price-migration-scheduler.js: isRunning and the position of processPendingMigrations
    translation_usage,          \* Ledger table translation_usage (set of rows)
    next_usage_id,              \* next id the Ledger gives a translation_usage row
    run,                        \* the consolidateOldSessions invocations in flight
    cons_calls,                 \* consolidateOldSessions invocations started so far
    seed                        \* the usage the platform recorded before the first run

migVars == <<now, price_migrations, price_migration_customers, stripe_price,
             stripe_update_log, email_log, proc, calls, history, scheduler>>
consVars == <<translation_usage, next_usage_id, run, cons_calls, seed>>
vars == <<now, price_migrations, price_migration_customers, stripe_price,
          stripe_update_log, email_log, proc, calls, history, scheduler,
          translation_usage, next_usage_id, run, cons_calls, seed>>

----------------------------------------------------------------------------
(* Bounds of the model *)

MaxCalls == 3
MaxRows == 6
MaxRuns == 2

(* Program constants *)

NOTICE_DAYS == 7
CONSOLIDATION_AGE_DAYS == 60
BATCH_SIZE == 50
SKIP_ROWS == 5

Null == "null"
NoTime == 0 - 1
Undefined == 0 - 1

MigOrder == <<"m1">>
MigIds == {MigOrder[k] : k \in 1..Len(MigOrder)}

(* invocations made through the routes run in the slots of Procs, the one *)
(* made by processPendingMigrations in the slot "sched"                   *)
Procs == {"p1", "p2"}
Slots == Procs \cup {"sched"}

(* the instants at which the clock is read *)
Instants == {0, 1, NOTICE_DAYS, NOTICE_DAYS + 1}

----------------------------------------------------------------------------
(* The organisations table and the Provider's subscriptions: fixed data.   *)

OrgOrder == <<"o1", "o2", "o3">>
OrgIds == {OrgOrder[k] : k \in 1..Len(OrgOrder)}

organisations(o) ==
    CASE o = "o1" -> [id |-> "o1", user_email |-> "o1@example.org",
                      subscription_tier |-> "basic", subscription_status |-> "active",
                      stripe_subscription_id |-> "sub_o1"]
      [] o = "o2" -> [id |-> "o2", user_email |-> Null,
                      subscription_tier |-> "standard", subscription_status |-> "active",
                      stripe_subscription_id |-> "sub_o2"]
      [] OTHER    -> [id |-> o, user_email |-> "o3@example.org",
                      subscription_tier |-> "pro", subscription_status |-> "canceled",
                      stripe_subscription_id |-> "sub_o3"]

StripeItem(o) ==
    CASE o = "o1" -> [id |-> "si_o1", currency |-> "gbp"]
      [] o = "o2" -> [id |-> "si_o2", currency |-> "usd"]
      [] OTHER    -> [id |-> "si_o3", currency |-> "eur"]

Tiers == {"basic", "standard", "pro"}
Currencies == {"gbp", "usd", "eur"}
PriceKeys == Tiers \X Currencies

OldPriceId(o) == "price_old"

(* newPriceIds of a createMigration request: every (tier, currency), or gbp only *)
FullPriceIds == [k \in PriceKeys |-> "price_new"]
GbpPriceIds == [k \in PriceKeys |-> IF k[2] = "gbp" THEN "price_new" ELSE Null]
PriceConfigs == {FullPriceIds, GbpPriceIds}

----------------------------------------------------------------------------
(* Pure helpers *)

getNewPriceId(migration, tier, currency) ==
    migration.new_price_ids[<<tier, currency>>]

EligibleOrg(o) ==
    /\ organisations(o).subscription_tier \in {"basic", "standard", "pro"}
    /\ organisations(o).subscription_status = "active"
    /\ organisations(o).stripe_subscription_id # Null

EligibleOrgs == SelectSeq(OrgOrder, EligibleOrg)

NoMig == [status |-> "absent"]

Exists(m) == price_migrations[m] # NoMig

----------------------------------------------------------------------------
(* Results and invocation records *)

Fail(err) ==
    [success |-> FALSE, error |-> err, sent |-> Undefined, failed |-> Undefined,
     completed |-> Undefined, errors |-> <<>>]

IdleProc ==
    [pc |-> "idle", op |-> "none", mig |-> Null, customers |-> <<>>, i |-> 0,
     sent |-> 0, failed |-> 0, completed |-> 0, errors |-> <<>>,
     effectiveDate |-> NoTime, emailOk |-> FALSE, result |-> Fail("none"),
     afterFullRun |-> FALSE, providerCalls |-> 0]

(* A returned invocation keeps what it was and what it returned. *)
Returned(p, res) ==
    [IdleProc EXCEPT !.op = proc[p].op, !.mig = proc[p].mig, !.result = res,
                     !.afterFullRun = proc[p].afterFullRun,
                     !.providerCalls = proc[p].providerCalls]

CanStart(p) == proc[p].pc = "idle" /\ calls < MaxCalls

Started(op, m, at) == [IdleProc EXCEPT !.op = op, !.mig = m, !.pc = at]

UNCHANGED_cons == UNCHANGED consVars

----------------------------------------------------------------------------
(* Ledger operations on price_migration_customers *)

NewCustomerRow(m, customer, currency) ==
    [id |-> 0, migration_id |-> m, organisation_id |-> customer.organisationId,
     current_tier |-> customer.tier, current_currency |-> currency,
     current_price_id |-> customer.currentPriceId,
     stripe_subscription_id |-> customer.stripeSubscriptionId,
     stripe_subscription_item_id |-> customer.subscriptionItemId,
     new_price_id |-> customer.newPriceId,
     email_sent_at |-> NoTime, email_status |-> Null,
     migration_status |-> "pending", migration_completed_at |-> NoTime,
     error_message |-> Null]

(* UNIQUE(migration_id, organisation_id) *)
UniqueViolation(table, row) ==
    \E k \in 1..Len(table) :
        /\ table[k].migration_id = row.migration_id
        /\ table[k].organisation_id = row.organisation_id

(* the insert into a table that lacks the unique index *)
InsertCustomerNoConstraint(table, row) ==
    Append(table, [row EXCEPT !.id = Len(table) + 1])

InsertCustomer(table, row) ==
    IF UniqueViolation(table, row)
    THEN table
    ELSE Append(table, [row EXCEPT !.id = Len(table) + 1])

RowsOf(table, m) == {k \in 1..Len(table) : table[k].migration_id = m}

RowsFor(table, m, o) ==
    {k \in 1..Len(table) : table[k].migration_id = m /\ table[k].organisation_id = o}

(* the query without .eq('migration_status', 'pending') *)
PendingCustomersUnfiltered(table, m) ==
    SelectSeq(table, LAMBDA r : r.migration_id = m)

(* the query asking for rows whose notice was delivered *)
PendingCustomersNotified(table, m) ==
    SelectSeq(table, LAMBDA r : /\ r.migration_id = m
                                /\ r.migration_status = "pending"
                                /\ r.email_status = "sent")

PendingCustomers(table, m) ==
    SelectSeq(table, LAMBDA r : r.migration_id = m /\ r.migration_status = "pending")

----------------------------------------------------------------------------
(* createMigration(config, adminEmail) *)

(* config.selectedOrganisationIds as POST / passes it on: absent, or an    *)
(* array of organisation ids                                               *)
NoSelection == [given |-> FALSE, ids |-> {}]
Selections == {NoSelection, [given |-> TRUE, ids |-> {"o1"}]}

createMigration(name, newPriceIds, selectedOrganisationIds) ==
    /\ \E m \in MigIds :
        /\ ~Exists(m)
        /\ IF name = Null
           THEN UNCHANGED <<price_migrations, history>>
           ELSE /\ history' = [history EXCEPT !.selected[m] = selectedOrganisationIds]
                /\ price_migrations' = [price_migrations EXCEPT ![m] =
                        [status |-> "pending",
                         new_price_ids |-> newPriceIds,
                         selected_organisation_ids |-> Null,
                         emails_sent_at |-> NoTime,
                         migration_scheduled_for |-> NoTime,
                         migration_completed_at |-> NoTime,
                         total_customers |-> Len(EligibleOrgs),
                         emails_sent_count |-> 0,
                         migrations_completed |-> 0,
                         migrations_failed |-> 0]]
    /\ UNCHANGED <<now, price_migration_customers, stripe_price, stripe_update_log,
                   email_log, proc, calls>>
    /\ UNCHANGED scheduler
    /\ UNCHANGED_cons

----------------------------------------------------------------------------
(* getCustomersToMigrate(migrationId): the eligible organisations, each     *)
(* enriched from the Provider; a failed retrieve leaves the Provider fields *)
(* null and the currency at its default.                                    *)

Customer(migration, o, retrieved) ==
    LET org == organisations(o)
        currency == IF retrieved THEN StripeItem(o).currency ELSE "gbp"
    IN  [organisationId |-> o,
         email |-> org.user_email,
         tier |-> org.subscription_tier,
         currency |-> currency,
         stripeSubscriptionId |-> org.stripe_subscription_id,
         subscriptionItemId |-> IF retrieved THEN StripeItem(o).id ELSE Null,
         currentPriceId |-> IF retrieved THEN stripe_price[o] ELSE Null,
         newPriceId |-> getNewPriceId(migration, org.subscription_tier, currency)]

getCustomersToMigrate(migration, retrieveFailed) ==
    [k \in 1..Len(EligibleOrgs) |->
        Customer(migration, EligibleOrgs[k], EligibleOrgs[k] \notin retrieveFailed)]

----------------------------------------------------------------------------
(* sendMigrationEmails(migrationId) *)

(* sendMigrationEmails without its status check *)
CanSendEmailsAlways(status) == TRUE

CanSendEmails(status) == status = "pending"

(* lines 715-731: fetch the migration, check its status *)
SendBegin(p, m) ==
    /\ CanStart(p)
    /\ calls' = calls + 1
    /\ proc' = [proc EXCEPT ![p] =
            IF ~Exists(m)
            THEN [Started("send", m, "idle") EXCEPT !.result = Fail("not found")]
            ELSE IF ~CanSendEmails(price_migrations[m].status)
            THEN [Started("send", m, "idle") EXCEPT
                     !.result = Fail(price_migrations[m].status)]
            ELSE Started("send", m, "s_customers")]
    /\ UNCHANGED <<now, price_migrations, price_migration_customers, stripe_price,
                   stripe_update_log, email_log>>
    /\ UNCHANGED <<history, scheduler>>
    /\ UNCHANGED_cons

(* lines 733-750: resolve the customers, compute the effective date *)
SendCustomers(p) ==
    /\ proc[p].pc = "s_customers"
    /\ \E retrieveFailed \in SUBSET {EligibleOrgs[k] : k \in 1..Len(EligibleOrgs)} :
        LET customers == getCustomersToMigrate(price_migrations[proc[p].mig], retrieveFailed)
        IN  proc' = [proc EXCEPT ![p].customers = customers,
                                 ![p].effectiveDate = now + NOTICE_DAYS,
                                 ![p].i = 1,
                                 ![p].pc = IF Len(customers) = 0 THEN "s_finish" ELSE "s_insert"]
    /\ UNCHANGED <<now, price_migrations, price_migration_customers, stripe_price,
                   stripe_update_log, email_log, calls>>
    /\ UNCHANGED <<history, scheduler>>
    /\ UNCHANGED_cons

(* the loop left after its first customer *)
NextCustomerAborting(p, at, done) == done

NextCustomer(p, at, done) ==
    IF proc[p].i < Len(proc[p].customers) THEN at ELSE done

(* lines 765-781: insert the customer row; a duplicate-key error is ignored *)
SendInsert(p) ==
    /\ proc[p].pc = "s_insert"
    /\ LET customer == proc[p].customers[proc[p].i]
       IN  /\ price_migration_customers' =
                 InsertCustomer(price_migration_customers,
                                NewCustomerRow(proc[p].mig, customer, customer.currency))
           /\ proc' = [proc EXCEPT ![p].pc =
                         IF customer.email = Null THEN "s_skip" ELSE "s_email"]
    /\ UNCHANGED <<now, price_migrations, stripe_price, stripe_update_log, email_log, calls>>
    /\ UNCHANGED <<history, scheduler>>
    /\ UNCHANGED_cons

(* lines 783-791: no email address *)
SendSkipEmail(p) ==
    /\ proc[p].pc = "s_skip"
    /\ LET customer == proc[p].customers[proc[p].i]
       IN  price_migration_customers' =
             [k \in 1..Len(price_migration_customers) |->
                IF k \in RowsFor(price_migration_customers, proc[p].mig, customer.organisationId)
                THEN [price_migration_customers[k] EXCEPT
                         !.email_status = "skipped", !.error_message = "No email address"]
                ELSE price_migration_customers[k]]
    /\ proc' = [proc EXCEPT ![p].i = @ + 1,
                            ![p].pc = NextCustomer(p, "s_insert", "s_finish")]
    /\ UNCHANGED <<now, price_migrations, stripe_price, stripe_update_log, email_log, calls>>
    /\ UNCHANGED <<history, scheduler>>
    /\ UNCHANGED_cons

(* lines 793-811: hand the notice to the Notifier, which delivers it or fails *)
SendEmail(p) ==
    /\ proc[p].pc = "s_email"
    /\ \E delivered \in BOOLEAN :
        LET customer == proc[p].customers[proc[p].i]
            key == <<proc[p].mig, customer.organisationId>>
        IN  /\ email_log' = IF delivered
                            THEN [email_log EXCEPT ![key] = @ + 1]
                            ELSE email_log
            /\ proc' = [proc EXCEPT ![p].emailOk = delivered, ![p].pc = "s_record"]
    /\ UNCHANGED <<now, price_migrations, price_migration_customers, stripe_price,
                   stripe_update_log, calls>>
    /\ UNCHANGED <<history, scheduler>>
    /\ UNCHANGED_cons

(* lines 813-832: record the outcome on the customer row *)
SendRecord(p) ==
    /\ proc[p].pc = "s_record"
    /\ LET customer == proc[p].customers[proc[p].i]
           ok == proc[p].emailOk
       IN  /\ price_migration_customers' =
                 [k \in 1..Len(price_migration_customers) |->
                    IF k \in RowsFor(price_migration_customers, proc[p].mig, customer.organisationId)
                    THEN [price_migration_customers[k] EXCEPT
                             !.email_sent_at = now,
                             !.email_status = IF ok THEN "sent" ELSE "failed",
                             !.error_message = IF ok THEN Null ELSE "email error"]
                    ELSE price_migration_customers[k]]
           /\ proc' = [proc EXCEPT
                         ![p].sent = IF ok THEN @ + 1 ELSE @,
                         ![p].failed = IF ok THEN @ ELSE @ + 1,
                         ![p].errors = IF ok THEN @ ELSE Append(@, customer.organisationId),
                         ![p].i = @ + 1,
                         ![p].pc = NextCustomer(p, "s_insert", "s_finish")]
    /\ UNCHANGED <<now, price_migrations, stripe_price, stripe_update_log, email_log, calls>>
    /\ UNCHANGED <<history, scheduler>>
    /\ UNCHANGED_cons

(* lines 841-855: update the migration row, return the totals; the result *)
(* of the update is not looked at, so the call returns the totals also     *)
(* when the Ledger refused the update                                      *)
SendFinish(p, updated) ==
    /\ proc[p].pc = "s_finish"
    /\ price_migrations' =
            IF updated
            THEN [price_migrations EXCEPT ![proc[p].mig] =
                    [@ EXCEPT !.status = "emails_sent",
                              !.emails_sent_at = now,
                              !.migration_scheduled_for = proc[p].effectiveDate,
                              !.emails_sent_count = proc[p].sent,
                              !.total_customers = Len(proc[p].customers)]]
            ELSE price_migrations
    /\ proc' = [proc EXCEPT ![p] =
            Returned(p, [success |-> TRUE, error |-> Null, sent |-> proc[p].sent,
                         failed |-> proc[p].failed, completed |-> Undefined,
                         errors |-> proc[p].errors])]
    /\ UNCHANGED <<now, price_migration_customers, stripe_price, stripe_update_log,
                   email_log, calls>>
    /\ UNCHANGED <<history, scheduler>>
    /\ UNCHANGED_cons

----------------------------------------------------------------------------
(* executeMigration(migrationId) *)

(* executeMigration refusing a completed migration only *)
ExecuteRejectsCompletedOnly(status) == status = "completed"

ExecuteRejected(status) == status \in {"completed", "cancelled"}

ExecuteError(status) ==
    IF status = "completed" THEN "already completed" ELSE "was cancelled"

TerminalRow(r) == r.migration_status \in {"completed", "failed", "skipped"}

(* A first full run is behind this call: an earlier executeMigration of m   *)
(* has written its completion, every row of m is terminal and no            *)
(* sendMigrationEmails of m is still enrolling.                             *)
FullRunBehind(m) ==
    /\ Exists(m)
    /\ price_migrations[m].migration_completed_at # NoTime
    /\ \A k \in RowsOf(price_migration_customers, m) :
            TerminalRow(price_migration_customers[k])
    /\ \A q \in Procs : ~(proc[q].op = "send" /\ proc[q].mig = m /\ proc[q].pc # "idle")

(* lines 867-887: fetch the migration, check its status *)
ExecStart(p, m) ==
    /\ proc[p].pc = "idle"
    /\ proc' = [proc EXCEPT ![p] =
            [(IF ~Exists(m)
              THEN [Started("execute", m, "idle") EXCEPT !.result = Fail("not found")]
              ELSE IF ExecuteRejected(price_migrations[m].status)
              THEN [Started("execute", m, "idle") EXCEPT
                       !.result = Fail(ExecuteError(price_migrations[m].status))]
              ELSE Started("execute", m, "e_load"))
             EXCEPT !.afterFullRun = FullRunBehind(m)]]
    /\ history' = IF Exists(m)
                  THEN [history EXCEPT !.executeBegun = @ \cup {m}]
                  ELSE history
    /\ UNCHANGED <<now, price_migrations, price_migration_customers, stripe_price,
                   stripe_update_log, email_log>>

(* POST /:id/execute *)
ExecBegin(p, m) ==
    /\ CanStart(p)
    /\ calls' = calls + 1
    /\ ExecStart(p, m)
    /\ UNCHANGED scheduler
    /\ UNCHANGED_cons

(* lines 889-900: load the rows still pending *)
ExecLoad(p) ==
    /\ proc[p].pc = "e_load"
    /\ LET customers == PendingCustomers(price_migration_customers, proc[p].mig)
       IN  proc' = [proc EXCEPT ![p].customers = customers,
                                ![p].i = 1,
                                ![p].pc = IF Len(customers) = 0 THEN "e_finish" ELSE "e_customer"]
    /\ UNCHANGED <<now, price_migrations, price_migration_customers, stripe_price,
                   stripe_update_log, email_log, calls>>
    /\ UNCHANGED <<history, scheduler>>
    /\ UNCHANGED_cons

(* executeMigration without its check of the two references *)
NeverMissingReference(customer) == FALSE

MissingReference(customer) ==
    customer.stripe_subscription_id = Null \/ customer.new_price_id = Null

UpdateCustomerById(table, id, status, completedAt, message) ==
    [k \in 1..Len(table) |->
        IF table[k].id = id
        THEN [table[k] EXCEPT !.migration_status = status,
                              !.migration_completed_at = completedAt,
                              !.error_message = message]
        ELSE table[k]]

(* lines 904-916: a row without subscription id or new price id is skipped *)
ExecSkip(p) ==
    /\ proc[p].pc = "e_customer"
    /\ LET customer == proc[p].customers[proc[p].i]
       IN  /\ MissingReference(customer)
           /\ price_migration_customers' =
                 LET row == price_migration_customers[customer.id]
                 IN  UpdateCustomerById(price_migration_customers, customer.id, "skipped",
                        row.migration_completed_at,
                        IF customer.stripe_subscription_id = Null
                        THEN "No subscription ID" ELSE "No new price ID configured")
    /\ proc' = [proc EXCEPT ![p].i = @ + 1,
                            ![p].pc = NextCustomer(p, "e_customer", "e_finish")]
    /\ UNCHANGED <<now, price_migrations, stripe_price, stripe_update_log, email_log, calls>>
    /\ UNCHANGED <<history, scheduler>>
    /\ UNCHANGED_cons

(* lines 918-936: the Provider call (retrieve when the item id is missing, *)
(* then update); either may throw                                          *)
ExecProvider(p) ==
    /\ proc[p].pc = "e_customer"
    /\ LET customer == proc[p].customers[proc[p].i]
           key == <<proc[p].mig, customer.organisation_id>>
       IN  /\ ~MissingReference(customer)
           /\ \E ok \in BOOLEAN :
                /\ stripe_price' = IF ok
                      THEN [stripe_price EXCEPT ![customer.organisation_id] = customer.new_price_id]
                      ELSE stripe_price
                /\ stripe_update_log' = IF ok
                      THEN [stripe_update_log EXCEPT ![key] = @ + 1]
                      ELSE stripe_update_log
                /\ proc' = [proc EXCEPT ![p].providerCalls = @ + 1,
                                        ![p].pc = IF ok THEN "e_completed" ELSE "e_failed"]
    /\ UNCHANGED <<now, price_migrations, price_migration_customers, email_log, calls>>
    /\ UNCHANGED <<history, scheduler>>
    /\ UNCHANGED_cons

(* lines 938-948: mark the row completed *)
ExecMarkCompleted(p) ==
    /\ proc[p].pc = "e_completed"
    /\ LET customer == proc[p].customers[proc[p].i]
       IN  price_migration_customers' =
             UpdateCustomerById(price_migration_customers, customer.id, "completed", now,
                                price_migration_customers[customer.id].error_message)
    /\ proc' = [proc EXCEPT ![p].completed = @ + 1,
                            ![p].i = @ + 1,
                            ![p].pc = NextCustomer(p, "e_customer", "e_finish")]
    /\ UNCHANGED <<now, price_migrations, stripe_price, stripe_update_log, email_log, calls>>
    /\ UNCHANGED <<history, scheduler>>
    /\ UNCHANGED_cons

(* lines 950-963: the catch block marks the row failed *)
ExecMarkFailed(p) ==
    /\ proc[p].pc = "e_failed"
    /\ LET customer == proc[p].customers[proc[p].i]
       IN  price_migration_customers' =
             UpdateCustomerById(price_migration_customers, customer.id, "failed",
                                price_migration_customers[customer.id].migration_completed_at,
                                "stripe error")
    /\ proc' = [proc EXCEPT ![p].failed = @ + 1,
                            ![p].errors = Append(@, proc[p].customers[proc[p].i].organisation_id),
                            ![p].i = @ + 1,
                            ![p].pc = NextCustomer(p, "e_customer", "e_finish")]
    /\ UNCHANGED <<now, price_migrations, stripe_price, stripe_update_log, email_log, calls>>
    /\ UNCHANGED <<history, scheduler>>
    /\ UNCHANGED_cons

(* lines 969-982: update the migration row, return the totals *)
ExecFinish(p) ==
    /\ proc[p].pc = "e_finish"
    /\ price_migrations' = [price_migrations EXCEPT ![proc[p].mig] =
            [@ EXCEPT !.status = "completed",
                      !.migration_completed_at = now,
                      !.migrations_completed = proc[p].completed,
                      !.migrations_failed = proc[p].failed]]
    /\ proc' = [proc EXCEPT ![p] =
            Returned(p, [success |-> TRUE, error |-> Null, sent |-> Undefined,
                         failed |-> proc[p].failed, completed |-> proc[p].completed,
                         errors |-> proc[p].errors])]
    /\ UNCHANGED <<now, price_migration_customers, stripe_price, stripe_update_log,
                   email_log, calls>>
    /\ UNCHANGED <<history, scheduler>>
    /\ UNCHANGED_cons

----------------------------------------------------------------------------
(* cancelMigration(migrationId) *)

(* cancelMigration without its status check *)
CancelRejectsNothing(status) == FALSE

CancelRejected(status) == status = "completed"

(* lines 994-1006: fetch the status, refuse a completed migration *)
CancelBegin(p, m) ==
    /\ CanStart(p)
    /\ calls' = calls + 1
    /\ proc' = [proc EXCEPT ![p] =
            IF ~Exists(m)
            THEN [Started("cancel", m, "idle") EXCEPT !.result = Fail("not found")]
            ELSE IF CancelRejected(price_migrations[m].status)
            THEN [Started("cancel", m, "idle") EXCEPT
                     !.result = Fail("Cannot cancel completed migration")]
            ELSE Started("cancel", m, "c_update")]
    /\ UNCHANGED <<now, price_migrations, price_migration_customers, stripe_price,
                   stripe_update_log, email_log>>
    /\ UNCHANGED <<history, scheduler>>
    /\ UNCHANGED_cons

(* lines 1008-1016: set the status *)
CancelUpdate(p) ==
    /\ proc[p].pc = "c_update"
    /\ price_migrations' = [price_migrations EXCEPT ![proc[p].mig].status = "cancelled"]
    /\ proc' = [proc EXCEPT ![p] =
            Returned(p, [success |-> TRUE, error |-> Null, sent |-> Undefined,
                         failed |-> Undefined, completed |-> Undefined, errors |-> <<>>])]
    /\ history' = IF proc[p].mig \in history.executeBegun
                  THEN history
                  ELSE [history EXCEPT !.cancelledFirst = @ \cup {proc[p].mig}]
    /\ UNCHANGED <<now, price_migration_customers, stripe_price, stripe_update_log,
                   email_log, calls>>
    /\ UNCHANGED scheduler
    /\ UNCHANGED_cons

----------------------------------------------------------------------------
(* What the run has seen of each migration: the allowlist its request      *)
(* carried, whether an executeMigration of it has begun, and whether it    *)
(* was cancelled before any had.                                           *)

NoHistory ==
    [selected |-> [m \in MigIds |-> NoSelection],
     executeBegun |-> {},
     cancelledFirst |-> {}]

----------------------------------------------------------------------------
(* getPendingMigrations() *)

(* the predicate without .eq('status', 'emails_sent') *)
ReadyWhateverStatus(row, at) ==
    /\ row.status # "absent"
    /\ row.migration_scheduled_for # NoTime
    /\ row.migration_scheduled_for <= at

(* lines 1083-1087; a null migration_scheduled_for does not satisfy .lte *)
ReadyToExecute(row, at) ==
    /\ row.status = "emails_sent"
    /\ row.migration_scheduled_for # NoTime
    /\ row.migration_scheduled_for <= at

getPendingMigrations(table, at) ==
    LET ready == SelectSeq(MigOrder, LAMBDA m : ReadyToExecute(table[m], at))
    IN  [k \in 1..Len(ready) |->
            [id |-> ready[k],
             status |-> table[ready[k]].status,
             migration_scheduled_for |-> table[ready[k]].migration_scheduled_for]]

----------------------------------------------------------------------------
(* price-migration-scheduler.js: processPendingMigrations(), called by the *)
(* cron job and by the startup check                                       *)

(* the two callers of processPendingMigrations *)
Triggers == {"cron", "startup"}

(* one invocation of processPendingMigrations: where it is and what it polled *)
IdleBody == [pc |-> "idle", migrations |-> <<>>, i |-> 0, polledAt |-> NoTime]

IdleScheduler ==
    [isRunning |-> FALSE, body |-> [t \in Triggers |-> IdleBody], startup |-> "pending"]

(* the flag taken without looking at it *)
EnterUnguarded(sch, t) == [sch EXCEPT !.isRunning = TRUE, !.body[t].pc = "poll"]

(* lines 19-25: return when a run is in progress, else take the flag *)
Enter(sch, t) ==
    IF sch.isRunning THEN sch ELSE [sch EXCEPT !.isRunning = TRUE, !.body[t].pc = "poll"]

(* the invocation ends and the flag stays *)
LeaveKeepingFlag(sch, t) == [sch EXCEPT !.body[t] = IdleBody]

(* lines 88-90: finally *)
Leave(sch, t) == [sch EXCEPT !.isRunning = FALSE, !.body[t] = IdleBody]

(* lines 101-104: the cron job fires *)
CronTrigger ==
    /\ scheduler' = Enter(scheduler, "cron")
    /\ UNCHANGED <<now, price_migrations, price_migration_customers, stripe_price,
                   stripe_update_log, email_log, proc, calls, history>>
    /\ UNCHANGED_cons

(* lines 108-111: the check made once, 10 seconds after startup; startup   *)
(* remembers whether it found a run in progress                            *)
StartupCheck ==
    /\ scheduler.startup = "pending"
    /\ scheduler' = [Enter(scheduler, "startup") EXCEPT
                        !.startup = IF scheduler.isRunning THEN "skipped" ELSE "fired"]
    /\ UNCHANGED <<now, price_migrations, price_migration_customers, stripe_price,
                   stripe_update_log, email_log, proc, calls, history>>
    /\ UNCHANGED_cons

(* lines 27-40: poll; return on an error or an empty list *)
SchedPoll(t) ==
    /\ scheduler.body[t].pc = "poll"
    /\ \E success \in BOOLEAN :
        LET migrations == getPendingMigrations(price_migrations, now)
        IN  scheduler' =
                IF ~success \/ Len(migrations) = 0
                THEN Leave(scheduler, t)
                ELSE [scheduler EXCEPT !.body[t] =
                        [pc |-> "execute", migrations |-> migrations,
                         i |-> 1, polledAt |-> now]]
    /\ UNCHANGED <<now, price_migrations, price_migration_customers, stripe_price,
                   stripe_update_log, email_log, proc, calls, history>>
    /\ UNCHANGED_cons

(* lines 42-46: executeMigration(migration.id) *)
SchedExecute(t) ==
    /\ scheduler.body[t].pc = "execute"
    /\ ExecStart("sched", scheduler.body[t].migrations[scheduler.body[t].i].id)
    /\ scheduler' = [scheduler EXCEPT !.body[t].pc = "alert"]
    /\ UNCHANGED calls
    /\ UNCHANGED_cons

(* lines 48-90: executeMigration has returned; send the alert and go on to *)
(* the next migration, or leave: after the last one, or when an exception  *)
(* reaches the outer catch                                                 *)
SchedAlert(t) ==
    /\ scheduler.body[t].pc = "alert"
    /\ proc["sched"].pc = "idle"
    /\ \E thrown \in BOOLEAN :
        scheduler' = IF ~thrown /\ scheduler.body[t].i < Len(scheduler.body[t].migrations)
                     THEN [scheduler EXCEPT !.body[t].pc = "execute", !.body[t].i = @ + 1]
                     ELSE Leave(scheduler, t)
    /\ UNCHANGED <<now, price_migrations, price_migration_customers, stripe_price,
                   stripe_update_log, email_log, proc, calls, history>>
    /\ UNCHANGED_cons

(* the clock advances *)
Tick ==
    /\ \E t \in Instants : t > now /\ now' = t
    /\ UNCHANGED <<price_migrations, price_migration_customers, stripe_price,
                   stripe_update_log, email_log, proc, calls, history, scheduler>>
    /\ UNCHANGED_cons

----------------------------------------------------------------------------
(* Usage consolidator: the streaming_sessions table (fixed data) and the    *)
(* translation_usage rows the platform wrote before the first run.          *)

SessionOrder == <<"s1", "s2", "s3", "s4">>
SessionIds == {SessionOrder[k] : k \in 1..Len(SessionOrder)}
RunIds == {"cron", "manual"}

(* sessions consolidated long ago, which still match the age and status    *)
(* filter of the session query                                             *)
FillerId(k) == "f" \o ToString(k)

(* the streaming_sessions table, in table order *)
AllSessions(sd) == [k \in 1..sd.fillers |-> FillerId(k)] \o SessionOrder

streaming_sessions(s) ==
    CASE s = "s1" -> [id |-> "s1", organisation_id |-> "o1", status |-> "completed",
                      started_at |-> 0 - 100, started_date |-> "2026-01-05"]
      [] s = "s2" -> [id |-> "s2", organisation_id |-> "o2", status |-> "recovered",
                      started_at |-> 0 - 90, started_date |-> "2026-01-15"]
      [] s = "s3" -> [id |-> "s3", organisation_id |-> "o1", status |-> "active",
                      started_at |-> 0 - 100, started_date |-> "2026-01-05"]
      [] s = "s4" -> [id |-> "s4", organisation_id |-> "o2", status |-> "completed",
                      started_at |-> 0 - 10, started_date |-> "2026-04-05"]
      [] OTHER    -> [id |-> s, organisation_id |-> "o1", status |-> "completed",
                      started_at |-> 0 - 200, started_date |-> "2025-09-27"]

LangPatterns ==
    << <<"es">>, <<Null, "unknown", "es">>, <<"es", "fr", "">>, <<"de", Null>>,
       <<"es", "fr", "de", "it", "pt", "nl">> >>

NoCount == 0 - 1

(* the k-th row the platform wrote for session s, the base-th row overall *)
GranularRow(s, k, base, pattern) ==
    [id |-> base + k,
     organisation_id |-> streaming_sessions(s).organisation_id,
     session_id |-> s,
     language |-> LangPatterns[pattern][((k - 1) % Len(LangPatterns[pattern])) + 1],
     character_count |-> IF k = 2 THEN NoCount ELSE 10 * k,
     client_count |-> IF k = 3 THEN NoCount ELSE k % 3,
     date |-> IF k = 1 THEN Null ELSE streaming_sessions(s).started_date,
     created_at |-> 0 - 100 + k,
     is_consolidated |-> FALSE]

(* the one row an earlier consolidation left for the k-th filler session *)
FillerRow(k, base) ==
    [id |-> base + k,
     organisation_id |-> streaming_sessions(FillerId(k)).organisation_id,
     session_id |-> FillerId(k),
     language |-> "es",
     character_count |-> 10,
     client_count |-> 1,
     date |-> streaming_sessions(FillerId(k)).started_date,
     created_at |-> 0 - 200,
     is_consolidated |-> TRUE]

Seeds ==
    [n1 : 0..MaxRows, n2 : {SKIP_ROWS, MaxRows}, pattern : 1..Len(LangPatterns),
     fillers : {0}]

(* one session more than a batch holds: BATCH_SIZE - 1 sessions already    *)
(* consolidated, and s1 and s2 with SKIP_ROWS + 1 granular rows each       *)
CrowdedSeed ==
    [n1 |-> SKIP_ROWS + 1, n2 |-> SKIP_ROWS + 1, pattern |-> 2,
     fillers |-> BATCH_SIZE - 1]

InitialUsage(sd) ==
    {GranularRow("s1", k, 0, sd.pattern) : k \in 1..sd.n1}
      \cup {GranularRow("s2", k, sd.n1, sd.pattern) : k \in 1..sd.n2}
      \cup {GranularRow("s3", k, sd.n1 + sd.n2, sd.pattern) : k \in 1..(SKIP_ROWS + 1)}
      \cup {GranularRow("s4", k, sd.n1 + sd.n2 + SKIP_ROWS + 1, sd.pattern) :
                k \in 1..(SKIP_ROWS + 1)}
      \cup {FillerRow(k, sd.n1 + sd.n2 + 2 * (SKIP_ROWS + 1)) : k \in 1..sd.fillers}

InitialNextId(sd) == sd.n1 + sd.n2 + 2 * (SKIP_ROWS + 1) + sd.fillers + 1

----------------------------------------------------------------------------
(* consolidateOldSessions(): pure parts *)

RECURSIVE SumOf(_, _)
SumOf(f, S) ==
    IF S = {} THEN 0
    ELSE LET x == CHOOSE y \in S : TRUE IN f[x] + SumOf(f, S \ {x})

OrZero(n) == IF n = NoCount THEN 0 ELSE n

MaxOf(S) == IF S = {} THEN 0 ELSE CHOOSE n \in S : \A k \in S : k <= n

MinOf(S) == CHOOSE n \in S : \A k \in S : n <= k

(* lines 37-42: completed or recovered sessions older than the cutoff *)
IsCandidate(s) ==
    /\ streaming_sessions(s).status \in {"completed", "recovered"}
    /\ streaming_sessions(s).started_at < now - CONSOLIDATION_AGE_DAYS

Candidates == SelectSeq(AllSessions(seed), IsCandidate)

(* seq without its k-th element *)
Without(seq, k) == SubSeq(seq, 1, k - 1) \o SubSeq(seq, k + 1, Len(seq))

(* the results a query for at most n rows of seq can give: all of seq when *)
(* it has at most n rows, else seq with all but n of its rows left out     *)
RECURSIVE Limit(_, _)
Limit(seq, n) ==
    IF Len(seq) <= n THEN {seq}
    ELSE UNION {Limit(Without(seq, k), n) : k \in 1..Len(seq)}

(* .limit(BATCH_SIZE) without ORDER BY: whichever BATCH_SIZE candidates    *)
(* the Ledger returns                                                      *)
Batches == Limit(Candidates, BATCH_SIZE)

(* the query without .eq('is_consolidated', false) *)
AllRowsOfSession(table, s) == {x \in table : x.session_id = s}

(* lines 64-68 *)
UnconsolidatedRows(table, s) ==
    {x \in table : x.session_id = s /\ ~x.is_consolidated}

(* the threshold written with < for <= *)
TooFewRowsOffByOne(n) == n < SKIP_ROWS

(* line 75 *)
TooFewRows(n) == n <= SKIP_ROWS

(* line 89 *)
LangKey(language) == IF language = Null \/ language = "" THEN "unknown" ELSE language

LangKeys(rows) == {LangKey(x.language) : x \in rows}

Group(rows, lang) == {x \in rows : LangKey(x.language) = lang}

(* lines 88-111: the aggregate of one language *)
Aggregate(rows, lang) ==
    LET g == Group(rows, lang)
    IN  [character_count |-> SumOf([x \in g |-> OrZero(x.character_count)], g),
         max_client_count |-> MaxOf({OrZero(x.client_count) : x \in g} \cup {0}),
         row_count |-> Cardinality(g)]

(* lines 107-110: the first date met and the earliest created_at *)
SessionDate(rows) ==
    LET dated == {x \in rows : x.date # Null}
    IN  IF dated = {} THEN Null
        ELSE (CHOOSE x \in dated : \A y \in dated : x.id <= y.id).date

EarliestCreatedAt(rows) == MinOf({x.created_at : x \in rows})

(* position of a language among the keys of languageAggregates *)
KeyRank(rows, lang) ==
    Cardinality({l \in LangKeys(rows) :
        MinOf({x.id : x \in Group(rows, l)}) < MinOf({x.id : x \in Group(rows, lang)})})

(* lines 113-123: one replacement row per language; the Ledger numbers them *)
ConsolidatedRows(s, rows, firstId) ==
    {[id |-> firstId + KeyRank(rows, lang),
      organisation_id |-> streaming_sessions(s).organisation_id,
      session_id |-> s,
      language |-> lang,
      character_count |-> Aggregate(rows, lang).character_count,
      client_count |-> Aggregate(rows, lang).max_client_count,
      date |-> IF SessionDate(rows) = Null
               THEN streaming_sessions(s).started_date ELSE SessionDate(rows),
      created_at |-> EarliestCreatedAt(rows),
      is_consolidated |-> TRUE] : lang \in LangKeys(rows)}

----------------------------------------------------------------------------
(* consolidateOldSessions(): one action per Ledger call *)

IdleRun ==
    [pc |-> "idle", sessions |-> <<>>, i |-> 0, rows |-> {},
     consolidated |-> 0, rowsRemoved |-> 0, rowsCreated |-> 0,
     returned |-> "none"]

CurrentSession(r) == run[r].sessions[run[r].i]

(* the call gives up at the first session that fails *)
MoveOnAborting(r, c, removed, created) ==
    [IdleRun EXCEPT !.consolidated = c, !.rowsRemoved = removed,
                    !.rowsCreated = created, !.returned = "throw"]

(* the loop moves on to the next session, or the call returns its totals *)
MoveOn(r, c, removed, created) ==
    IF run[r].i < Len(run[r].sessions)
    THEN [run[r] EXCEPT !.pc = "check", !.i = @ + 1, !.rows = {},
                        !.consolidated = c, !.rowsRemoved = removed, !.rowsCreated = created]
    ELSE [IdleRun EXCEPT !.consolidated = c, !.rowsRemoved = removed,
                         !.rowsCreated = created, !.returned = "totals"]

UNCHANGED_mig == UNCHANGED migVars

(* lines 28-59: select the batch of sessions *)
ConsSelect(r, sessionsError) ==
    /\ run[r].pc = "idle"
    /\ \E batch \in Batches :
        run' = [run EXCEPT ![r] =
            IF sessionsError THEN [IdleRun EXCEPT !.returned = "throw"]
            ELSE IF Len(batch) = 0 THEN [IdleRun EXCEPT !.returned = "totals"]
            ELSE [IdleRun EXCEPT !.pc = "check", !.sessions = batch, !.i = 1]]
    /\ UNCHANGED <<translation_usage, next_usage_id, seed>>
    /\ UNCHANGED_mig

(* one of the MaxRuns runs begins *)
ConsBegin(r) ==
    /\ cons_calls < MaxRuns
    /\ cons_calls' = cons_calls + 1
    /\ \E sessionsError \in BOOLEAN : ConsSelect(r, sessionsError)

(* lines 63-78: read the session's unconsolidated rows; skip on error or    *)
(* when there are too few                                                   *)
ConsRead(r, checkError) ==
    /\ run[r].pc = "check"
    /\ LET rows == UnconsolidatedRows(translation_usage, CurrentSession(r))
       IN  run' = [run EXCEPT ![r] =
                IF checkError \/ TooFewRows(Cardinality(rows))
                THEN MoveOn(r, run[r].consolidated, run[r].rowsRemoved, run[r].rowsCreated)
                ELSE [run[r] EXCEPT !.pc = "delete", !.rows = rows]]
    /\ UNCHANGED <<translation_usage, next_usage_id, cons_calls, seed>>
    /\ UNCHANGED_mig

ConsCheck(r) == \E checkError \in BOOLEAN : ConsRead(r, checkError)

(* lines 125-135: delete the granular rows that were read *)
ConsRemove(r, deleteError) ==
    /\ run[r].pc = "delete"
    /\ IF deleteError
       THEN /\ UNCHANGED translation_usage
            /\ run' = [run EXCEPT ![r] =
                   MoveOn(r, run[r].consolidated, run[r].rowsRemoved, run[r].rowsCreated)]
       ELSE /\ translation_usage' =
                   {x \in translation_usage : x.id \notin {y.id : y \in run[r].rows}}
            /\ run' = [run EXCEPT ![r].pc = "insert"]
    /\ UNCHANGED <<next_usage_id, cons_calls, seed>>
    /\ UNCHANGED_mig

ConsDelete(r) == \E deleteError \in BOOLEAN : ConsRemove(r, deleteError)

(* lines 137-153: insert the replacement rows, count the session *)
ConsReplace(r, insertError) ==
    /\ run[r].pc = "insert"
    /\ LET new == ConsolidatedRows(CurrentSession(r), run[r].rows, next_usage_id)
       IN  IF insertError
           THEN /\ UNCHANGED <<translation_usage, next_usage_id>>
                /\ run' = [run EXCEPT ![r] =
                       MoveOn(r, run[r].consolidated, run[r].rowsRemoved, run[r].rowsCreated)]
           ELSE /\ translation_usage' = translation_usage \cup new
                /\ next_usage_id' = next_usage_id + Cardinality(new)
                /\ run' = [run EXCEPT ![r] =
                       MoveOn(r, run[r].consolidated + 1,
                              run[r].rowsRemoved + Cardinality(run[r].rows),
                              run[r].rowsCreated + Cardinality(new))]
    /\ UNCHANGED <<cons_calls, seed>>
    /\ UNCHANGED_mig

ConsInsert(r) == \E insertError \in BOOLEAN : ConsReplace(r, insertError)

----------------------------------------------------------------------------
(* The migration engine *)

Init ==
    /\ now = 0
    /\ price_migrations = [m \in MigIds |-> NoMig]
    /\ price_migration_customers = <<>>
    /\ stripe_price = [o \in OrgIds |-> OldPriceId(o)]
    /\ stripe_update_log = [k \in MigIds \X OrgIds |-> 0]
    /\ email_log = [k \in MigIds \X OrgIds |-> 0]
    /\ proc = [p \in Slots |-> IdleProc]
    /\ calls = 0
    /\ history = NoHistory
    /\ scheduler = IdleScheduler
    /\ seed = [n1 |-> 0, n2 |-> 0, pattern |-> 1, fillers |-> 0]
    /\ translation_usage = InitialUsage(seed)
    /\ next_usage_id = InitialNextId(seed)
    /\ run = [r \in RunIds |-> IdleRun]
    /\ cons_calls = 0

Next ==
    \/ \E name \in {Null, "January 2026 Price Update"}, ids \in PriceConfigs :
          createMigration(name, ids, NoSelection)
    \/ \E p \in Procs, m \in MigIds : SendBegin(p, m)
    \/ \E p \in Procs : SendCustomers(p)
    \/ \E p \in Procs : SendInsert(p)
    \/ \E p \in Procs : SendSkipEmail(p)
    \/ \E p \in Procs : SendEmail(p)
    \/ \E p \in Procs : SendRecord(p)
    \/ \E p \in Procs : SendFinish(p, TRUE)
    \/ \E p \in Procs, m \in MigIds : ExecBegin(p, m)
    \/ \E p \in Procs : ExecLoad(p)
    \/ \E p \in Procs : ExecSkip(p)
    \/ \E p \in Procs : ExecProvider(p)
    \/ \E p \in Procs : ExecMarkCompleted(p)
    \/ \E p \in Procs : ExecMarkFailed(p)
    \/ \E p \in Procs : ExecFinish(p)
    \/ \E p \in Procs, m \in MigIds : CancelBegin(p, m)
    \/ \E p \in Procs : CancelUpdate(p)

Spec == Init /\ [][Next]_vars

----------------------------------------------------------------------------
(* The migration engine under the scheduler and the clock: the admin      *)
(* sends the notices of a migration once (slot p1) and cancels it at most *)
(* once (slot p2); executeMigration is called by the scheduler.           *)

Fresh(p) == proc[p].op = "none"

SchedNext ==
    \/ createMigration("January 2026 Price Update", GbpPriceIds, NoSelection)
    \/ \E m \in MigIds : Fresh("p1") /\ SendBegin("p1", m)
    \/ \E p \in Procs : SendCustomers(p)
    \/ \E p \in Procs : SendInsert(p)
    \/ \E p \in Procs : SendSkipEmail(p)
    \/ \E p \in Procs : SendEmail(p)
    \/ \E p \in Procs : SendRecord(p)
    \/ \E p \in Procs : SendFinish(p, TRUE)
    \/ ExecLoad("sched")
    \/ ExecSkip("sched")
    \/ ExecProvider("sched")
    \/ ExecMarkCompleted("sched")
    \/ ExecMarkFailed("sched")
    \/ ExecFinish("sched")
    \/ \E m \in MigIds : Fresh("p2") /\ CancelBegin("p2", m)
    \/ \E p \in Procs : CancelUpdate(p)
    \/ CronTrigger
    \/ StartupCheck
    \/ \E t \in Triggers : SchedPoll(t)
    \/ \E t \in Triggers : SchedExecute(t)
    \/ \E t \in Triggers : SchedAlert(t)
    \/ Tick

SchedSpec == Init /\ [][SchedNext]_vars

(* a step of a processPendingMigrations invocation, or of the              *)
(* executeMigration it awaits                                              *)
RunStep ==
    \/ \E t \in Triggers : SchedPoll(t) \/ SchedExecute(t) \/ SchedAlert(t)
    \/ ExecLoad("sched")
    \/ ExecSkip("sched")
    \/ ExecProvider("sched")
    \/ ExecMarkCompleted("sched")
    \/ ExecMarkFailed("sched")
    \/ ExecFinish("sched")

(* every await of a running invocation is answered, and the event loop     *)
(* then resumes it: weak fairness of its steps                             *)
SchedLiveSpec == SchedSpec /\ WF_vars(RunStep)

----------------------------------------------------------------------------
(* createMigration and sendMigrationEmails alone: the request may carry an *)
(* allowlist, and the Ledger may refuse the final update of a send.        *)

SendNext ==
    \/ \E ids \in PriceConfigs, sel \in Selections :
          createMigration("January 2026 Price Update", ids, sel)
    \/ \E p \in Procs, m \in MigIds : SendBegin(p, m)
    \/ \E p \in Procs : SendCustomers(p)
    \/ \E p \in Procs : SendInsert(p)
    \/ \E p \in Procs : SendSkipEmail(p)
    \/ \E p \in Procs : SendEmail(p)
    \/ \E p \in Procs : SendRecord(p)
    \/ \E p \in Procs, updated \in BOOLEAN : SendFinish(p, updated)

SendSpec == Init /\ [][SendNext]_vars

----------------------------------------------------------------------------
(* The usage consolidator: the cron job and runConsolidationNow *)

ConsInit ==
    /\ now = 0
    /\ price_migrations = [m \in MigIds |-> NoMig]
    /\ price_migration_customers = <<>>
    /\ stripe_price = [o \in OrgIds |-> OldPriceId(o)]
    /\ stripe_update_log = [k \in MigIds \X OrgIds |-> 0]
    /\ email_log = [k \in MigIds \X OrgIds |-> 0]
    /\ proc = [p \in Slots |-> IdleProc]
    /\ calls = 0
    /\ history = NoHistory
    /\ scheduler = IdleScheduler
    /\ seed \in Seeds
    /\ translation_usage = InitialUsage(seed)
    /\ next_usage_id = InitialNextId(seed)
    /\ run = [r \in RunIds |-> IdleRun]
    /\ cons_calls = 0

ConsNext ==
    \/ \E r \in RunIds : ConsBegin(r)
    \/ \E r \in RunIds : ConsCheck(r)
    \/ \E r \in RunIds : ConsDelete(r)
    \/ \E r \in RunIds : ConsInsert(r)

ConsSpec == ConsInit /\ [][ConsNext]_vars

(* The daily cron run for ever, with a Ledger that never fails and one     *)
(* candidate session more than a batch holds. node-cron fires every day,   *)
(* and each await of a run is answered: weak fairness of the steps.        *)
CrowdedInit ==
    /\ now = 0
    /\ price_migrations = [m \in MigIds |-> NoMig]
    /\ price_migration_customers = <<>>
    /\ stripe_price = [o \in OrgIds |-> OldPriceId(o)]
    /\ stripe_update_log = [k \in MigIds \X OrgIds |-> 0]
    /\ email_log = [k \in MigIds \X OrgIds |-> 0]
    /\ proc = [p \in Slots |-> IdleProc]
    /\ calls = 0
    /\ history = NoHistory
    /\ scheduler = IdleScheduler
    /\ seed = CrowdedSeed
    /\ translation_usage = InitialUsage(seed)
    /\ next_usage_id = InitialNextId(seed)
    /\ run = [r \in RunIds |-> IdleRun]
    /\ cons_calls = 0

DailyRun == ConsSelect("cron", FALSE) /\ UNCHANGED cons_calls

CrowdedNext ==
    \/ DailyRun
    \/ ConsRead("cron", FALSE)
    \/ ConsRemove("cron", FALSE)
    \/ ConsReplace("cron", FALSE)

CrowdedSpec ==
    /\ CrowdedInit
    /\ [][CrowdedNext]_vars
    /\ WF_vars(DailyRun)
    /\ WF_vars(ConsRead("cron", FALSE))
    /\ WF_vars(ConsRemove("cron", FALSE))
    /\ WF_vars(ConsReplace("cron", FALSE))

----------------------------------------------------------------------------
(* Properties of the migration engine *)

pmc == price_migration_customers

Status(m) == price_migrations[m].status

SendOf(p, m) == proc[p].op = "send" /\ proc[p].mig = m

(* invocation p of sendMigrationEmails(m) is past its insert for o *)
PastInsert(p, m, o) ==
    /\ SendOf(p, m)
    /\ \/ proc[p].pc = "idle" /\ proc[p].result.success /\ EligibleOrg(o)
       \/ \E k \in 1..Len(proc[p].customers) :
            /\ proc[p].customers[k].organisationId = o
            /\ \/ k < proc[p].i
               \/ k = proc[p].i /\ proc[p].pc \in {"s_skip", "s_email", "s_record"}

(* C1: no (migration, organisation) pair ever has two MigrationCustomer    *)
(* rows, and once an invocation of sendMigrationEmails(M) is past its      *)
(* insert for O - also a second invocation, whose insert hits the          *)
(* duplicate key - the pair has exactly one row.                           *)
C1_EnrollmentUnique ==
    \A m \in MigIds, o \in OrgIds :
        /\ Cardinality(RowsFor(pmc, m, o)) <= 1
        /\ (\E p \in Procs : PastInsert(p, m, o)) => Cardinality(RowsFor(pmc, m, o)) = 1

(* two invocations of sendMigrationEmails(m) have both run to the end *)
C1_Witness ==
    \E m \in MigIds :
        /\ \A p \in Procs : SendOf(p, m) /\ proc[p].pc = "idle" /\ proc[p].result.success
        /\ \A o \in OrgIds : EligibleOrg(o) => Cardinality(RowsFor(pmc, m, o)) = 1

(* C2: the only changes of a row's migration_status ever made are          *)
(* pending -> completed, pending -> failed and pending -> skipped.         *)
C2_MonotonicStatus ==
    [][\A k \in 1..Len(pmc) :
          pmc'[k].migration_status # pmc[k].migration_status
            => /\ pmc[k].migration_status = "pending"
               /\ pmc'[k].migration_status \in {"completed", "failed", "skipped"}]_vars

(* C5: cancelMigration on a completed migration returns a failure and      *)
(* leaves the migration row and every MigrationCustomer row as they were.  *)
C5_CancelCompletedFails ==
    [][\A p \in Procs, m \in MigIds :
          (CancelBegin(p, m) /\ Exists(m) /\ Status(m) = "completed")
            => /\ proc'[p].pc = "idle"
               /\ ~proc'[p].result.success
               /\ proc'[p].result.error = "Cannot cancel completed migration"
               /\ price_migrations' = price_migrations
               /\ pmc' = pmc]_vars

C5_Witness ==
    \E p \in Procs, m \in MigIds :
        /\ proc[p].op = "cancel" /\ proc[p].mig = m /\ proc[p].pc = "idle"
        /\ proc[p].result.error = "Cannot cancel completed migration"
        /\ Status(m) = "completed"
        /\ \E k \in RowsOf(pmc, m) : pmc[k].migration_status = "completed"

ExecuteAfterFullRun(p) == proc[p].op = "execute" /\ proc[p].afterFullRun

Transitions ==
    {<<"pending", "emails_sent">>, <<"emails_sent", "completed">>,
     <<"pending", "cancelled">>, <<"emails_sent", "cancelled">>}

(* C7: every change of Migration.status is pending -> emails_sent,         *)
(* emails_sent -> completed, pending -> cancelled or emails_sent ->        *)
(* cancelled.                                                              *)
C7_StateMachine ==
    [][\A m \in MigIds :
          (Exists(m) /\ Status(m)' # Status(m)) => <<Status(m), Status(m)'>> \in Transitions]_vars

(* C8: once Migration.status is completed or cancelled it never takes a    *)
(* different value.                                                        *)
C8_TerminalStatus ==
    [][\A m \in MigIds :
          (Exists(m) /\ Status(m) \in {"completed", "cancelled"}) => Status(m)' = Status(m)]_vars

CustomerRows(table, m) == SelectSeq(table, LAMBDA r : r.migration_id = m)

(* C9: once a migration is completed or cancelled, none of its             *)
(* MigrationCustomer rows is inserted or updated.                          *)
C9_NoRowMutationAfterEnd ==
    [][\A m \in MigIds :
          (Exists(m) /\ Status(m) \in {"completed", "cancelled"})
            => CustomerRows(pmc', m) = CustomerRows(pmc, m)]_vars

(* C10: the Provider's subscription item of a customer is updated at most  *)
(* once per customer per migration.                                        *)
C10_UpdatedAtMostOnce ==
    \A key \in MigIds \X OrgIds : stripe_update_log[key] <= 1

(* C11: over the life of a migration the Notifier delivers at most one      *)
(* price-change notice to each organisation, also when                     *)
(* sendMigrationEmails is invoked again on a migration that is still       *)
(* pending after an earlier invocation enrolled and emailed customers.     *)
C11_OneNoticePerOrganisation ==
    \A key \in MigIds \X OrgIds : email_log[key] <= 1

(* C12: migration_scheduled_for is null as long as emails_sent_at is, and  *)
(* when set it equals the stored emails_sent_at plus exactly 7 days.       *)
C12_ScheduledSevenDaysAfterSent ==
    \A m \in MigIds :
        (Exists(m) /\ price_migrations[m].migration_scheduled_for # NoTime)
          => /\ price_migrations[m].emails_sent_at # NoTime
             /\ price_migrations[m].migration_scheduled_for
                    = price_migrations[m].emails_sent_at + 7

(* C13: sendMigrationEmails on a migration whose status is emails_sent,    *)
(* completed or cancelled returns a failure naming that status, inserts no *)
(* MigrationCustomer row, sends no email and leaves the Migration row      *)
(* unchanged.                                                              *)
C13_SendNotPendingFails ==
    [][\A p \in Procs, m \in MigIds :
          (SendBegin(p, m) /\ Exists(m)
             /\ Status(m) \in {"emails_sent", "completed", "cancelled"})
            => /\ proc'[p].pc = "idle"
               /\ ~proc'[p].result.success
               /\ proc'[p].result.error = Status(m)
               /\ pmc' = pmc
               /\ email_log' = email_log
               /\ price_migrations' = price_migrations]_vars

(* a sendMigrationEmails has been turned away from a migration whose       *)
(* notices were already sent, and the rows are there                       *)
C13_Witness ==
    \E p \in Procs, m \in MigIds :
        /\ SendOf(p, m) /\ proc[p].pc = "idle"
        /\ ~proc[p].result.success
        /\ proc[p].result.error = "emails_sent"
        /\ Status(m) = "emails_sent"
        /\ RowsOf(pmc, m) # {}

C15_CancelledNeverUpdated ==
    \A m \in MigIds :
        m \in history.cancelledFirst
          => \A o \in OrgIds : stripe_update_log[<<m, o>>] = 0

Due(at) ==
    {m \in MigIds : /\ Exists(m)
                    /\ Status(m) = "emails_sent"
                    /\ price_migrations[m].migration_scheduled_for # NoTime
                    /\ price_migrations[m].migration_scheduled_for <= at}

(* C16: a poll of the scheduler that succeeds yields exactly the           *)
(* migrations whose status is emails_sent and whose migration_scheduled_for *)
(* is not later than the time of the poll, and processPendingMigrations    *)
(* calls executeMigration only for a migration of that list.               *)
C16_OnlyDueExecuted ==
    [][\A t \in Triggers :
          /\ SchedPoll(t)
             => LET polled == {scheduler'.body[t].migrations[k].id :
                                   k \in 1..Len(scheduler'.body[t].migrations)}
                IN  /\ polled \subseteq Due(now)
                    /\ (scheduler'.body[t].pc = "execute" => polled = Due(now))
          /\ SchedExecute(t)
             => \E k \in 1..Len(scheduler.body[t].migrations) :
                   LET migration == scheduler.body[t].migrations[k]
                   IN  /\ migration.id = proc'["sched"].mig
                       /\ migration.status = "emails_sent"
                       /\ migration.migration_scheduled_for # NoTime
                       /\ migration.migration_scheduled_for <= scheduler.body[t].polledAt]_vars

(* the startup check has polled when the migration was due, and the        *)
(* scheduler has executed it                                               *)
C16_Witness ==
    \E m \in MigIds :
        /\ proc["sched"].op = "execute" /\ proc["sched"].mig = m
        /\ proc["sched"].pc = "idle" /\ proc["sched"].result.success
        /\ Status(m) = "completed"
        /\ scheduler.startup = "fired"
        /\ price_migrations[m].migration_scheduled_for <= now

(* C17: at no time are two executeMigration invocations of the same        *)
(* migration in progress.                                                  *)
C17_NoOverlappingExecutions ==
    \A p \in Slots, q \in Slots :
        (/\ p # q
         /\ proc[p].op = "execute" /\ proc[p].pc # "idle"
         /\ proc[q].op = "execute" /\ proc[q].pc # "idle")
          => proc[p].mig # proc[q].mig

(* C18: when the request of a migration carried an allowlist,              *)
(* total_customers counts the eligible organisations of the allowlist, and *)
(* only organisations of the allowlist have a MigrationCustomer row or     *)
(* were sent a notice.                                                     *)
C18_AllowlistRespected ==
    \A m \in MigIds :
        (Exists(m) /\ history.selected[m].given)
          => /\ Status(m) = "pending"
                => price_migrations[m].total_customers =
                      Cardinality({o \in history.selected[m].ids : EligibleOrg(o)})
             /\ \A k \in RowsOf(pmc, m) :
                    pmc[k].organisation_id \in history.selected[m].ids
             /\ \A o \in OrgIds \ history.selected[m].ids : email_log[<<m, o>>] = 0

(* C19: a customer without email address gets email_status = skipped with  *)
(* the reason "No email address" and no Notifier call, its                 *)
(* migration_status is left as it was, and executeMigration loads the row  *)
(* when it is pending and calls the Provider for it when its subscription  *)
(* id and new price id are present.                                        *)
C19_EmailIndependentOfBilling ==
    [][\A p \in Procs :
          /\ SendSkipEmail(p)
             => LET o == proc[p].customers[proc[p].i].organisationId
                IN  /\ organisations(o).user_email = Null
                    /\ email_log' = email_log
                    /\ \A k \in RowsFor(pmc', proc[p].mig, o) :
                          /\ pmc'[k].email_status = "skipped"
                          /\ pmc'[k].error_message = "No email address"
                          /\ pmc'[k].migration_status = pmc[k].migration_status
          /\ SendEmail(p) => proc[p].customers[proc[p].i].email # Null
          /\ ExecLoad(p)
             => \A k \in RowsOf(pmc, proc[p].mig) :
                    (pmc[k].migration_status = "pending" /\ pmc[k].email_status = "skipped")
                      => \E j \in 1..Len(proc'[p].customers) : proc'[p].customers[j].id = k
          /\ ((ExecSkip(p) \/ ExecProvider(p))
                /\ pmc[proc[p].customers[proc[p].i].id].email_status = "skipped"
                /\ proc[p].customers[proc[p].i].stripe_subscription_id # Null
                /\ proc[p].customers[proc[p].i].new_price_id # Null)
             => /\ proc'[p].providerCalls = proc[p].providerCalls + 1
                /\ \/ proc'[p].pc = "e_failed"
                   \/ /\ proc'[p].pc = "e_completed"
                      /\ stripe_price'[proc[p].customers[proc[p].i].organisation_id]
                            = proc[p].customers[proc[p].i].new_price_id]_vars

(* the customer without email address was never sent a notice, its row     *)
(* says skipped, and executeMigration has moved its subscription to the    *)
(* new price                                                               *)
C19_Witness ==
    \E k \in 1..Len(pmc) :
        /\ organisations(pmc[k].organisation_id).user_email = Null
        /\ pmc[k].email_status = "skipped"
        /\ pmc[k].error_message = "No email address"
        /\ pmc[k].migration_status = "completed"
        /\ price_migrations[pmc[k].migration_id].emails_sent_at # NoTime
        /\ stripe_price[pmc[k].organisation_id] = "price_new"
        /\ email_log[<<pmc[k].migration_id, pmc[k].organisation_id>>] = 0

(* C20: executeMigration marks a pending row whose stripe_subscription_id  *)
(* or new_price_id is missing as skipped, with the reason naming the       *)
(* missing field, makes no Provider call for it and counts it neither as   *)
(* completed nor as failed.                                                *)
C20_MissingReferenceSkipped ==
    [][\A p \in Procs :
          ((ExecSkip(p) \/ ExecProvider(p))
             /\ (\/ proc[p].customers[proc[p].i].stripe_subscription_id = Null
                 \/ proc[p].customers[proc[p].i].new_price_id = Null))
            => LET customer == proc[p].customers[proc[p].i]
               IN  /\ pmc'[customer.id].migration_status = "skipped"
                   /\ pmc'[customer.id].error_message =
                         (IF customer.stripe_subscription_id = Null
                          THEN "No subscription ID" ELSE "No new price ID configured")
                   /\ stripe_price' = stripe_price
                   /\ stripe_update_log' = stripe_update_log
                   /\ proc'[p].providerCalls = proc[p].providerCalls
                   /\ proc'[p].completed = proc[p].completed
                   /\ proc'[p].failed = proc[p].failed]_vars

(* an executeMigration has returned: it updated one subscription, skipped  *)
(* the row without new price id and counted one completed, none failed     *)
C20_Witness ==
    \E p \in Procs, k \in 1..Len(pmc) :
        /\ proc[p].op = "execute" /\ proc[p].pc = "idle" /\ proc[p].result.success
        /\ proc[p].result.completed = 1 /\ proc[p].result.failed = 0
        /\ proc[p].providerCalls = 1
        /\ pmc[k].migration_id = proc[p].mig
        /\ pmc[k].new_price_id = Null
        /\ pmc[k].migration_status = "skipped"
        /\ pmc[k].error_message = "No new price ID configured"
        /\ stripe_update_log[<<pmc[k].migration_id, pmc[k].organisation_id>>] = 0

(* C21: a failure of the Provider (of the Notifier) for one customer marks *)
(* that customer's row failed with the error text, counts it in failed and *)
(* lists it in errors; the loop goes on to the next customer, and the call *)
(* returns success = true with these counts and errors.                    *)
C21_FailureDoesNotAbort ==
    [][\A p \in Procs :
          /\ ExecMarkFailed(p)
             => LET customer == proc[p].customers[proc[p].i]
                IN  /\ pmc'[customer.id].migration_status = "failed"
                    /\ pmc'[customer.id].error_message = "stripe error"
                    /\ proc'[p].failed = proc[p].failed + 1
                    /\ proc'[p].completed = proc[p].completed
                    /\ proc'[p].errors = Append(proc[p].errors, customer.organisation_id)
                    /\ proc'[p].i = proc[p].i + 1
                    /\ proc'[p].pc = (IF proc[p].i < Len(proc[p].customers)
                                      THEN "e_customer" ELSE "e_finish")
          /\ (SendRecord(p) /\ ~proc[p].emailOk)
             => LET customer == proc[p].customers[proc[p].i]
                IN  /\ \A k \in RowsFor(pmc', proc[p].mig, customer.organisationId) :
                          /\ pmc'[k].email_status = "failed"
                          /\ pmc'[k].error_message = "email error"
                    /\ proc'[p].failed = proc[p].failed + 1
                    /\ proc'[p].sent = proc[p].sent
                    /\ proc'[p].errors = Append(proc[p].errors, customer.organisationId)
                    /\ proc'[p].i = proc[p].i + 1
                    /\ proc'[p].pc = (IF proc[p].i < Len(proc[p].customers)
                                      THEN "s_insert" ELSE "s_finish")
          /\ (ExecFinish(p) \/ \E updated \in BOOLEAN : SendFinish(p, updated))
             => /\ proc'[p].result.success
                /\ proc'[p].result.failed = proc[p].failed
                /\ proc'[p].result.errors = proc[p].errors
                /\ Len(proc[p].errors) = proc[p].failed]_vars

(* an executeMigration has returned success: the Provider failed for its   *)
(* first customer, the row says failed, and the second customer was        *)
(* migrated all the same                                                   *)
C21_Witness ==
    \E p \in Procs :
        /\ proc[p].op = "execute" /\ proc[p].pc = "idle" /\ proc[p].result.success
        /\ proc[p].result.failed = 1 /\ proc[p].result.completed = 1
        /\ proc[p].result.errors = <<"o1">>
        /\ \E k \in RowsFor(pmc, proc[p].mig, "o1") : pmc[k].migration_status = "failed"
        /\ \E k \in RowsFor(pmc, proc[p].mig, "o2") : pmc[k].migration_status = "completed"

CountRows(m, status) ==
    Cardinality({k \in RowsOf(pmc, m) : pmc[k].migration_status = status})

(* C22: whenever a migration's status is completed, migrations_completed   *)
(* is the number of its rows with migration_status = completed and         *)
(* migrations_failed the number of its rows with migration_status = failed. *)
C22_CountersMatchRows ==
    \A m \in MigIds :
        (Exists(m) /\ Status(m) = "completed")
          => /\ price_migrations[m].migrations_completed = CountRows(m, "completed")
             /\ price_migrations[m].migrations_failed = CountRows(m, "failed")

(* C28: while a migration's status is completed, none of its               *)
(* MigrationCustomer rows has migration_status = pending.                  *)
C28_NoPendingWhenCompleted ==
    \A m \in MigIds :
        (Exists(m) /\ Status(m) = "completed")
          => \A k \in RowsOf(pmc, m) : pmc[k].migration_status # "pending"

(* C29: at most one processPendingMigrations body is between setting     *)
(* isRunning = true and resetting it, and only while the flag is set; a    *)
(* cron tick or startup check that fires while the flag is set leaves      *)
(* every body where it was and calls neither getPendingMigrations nor      *)
(* executeMigration.                                                       *)
C29_MutualExclusion ==
    [][/\ Cardinality({t \in Triggers : scheduler'.body[t].pc # "idle"}) <= 1
       /\ (\E t \in Triggers : scheduler'.body[t].pc # "idle") => scheduler'.isRunning
       /\ ((CronTrigger \/ StartupCheck) /\ scheduler.isRunning)
            => /\ scheduler'.body = scheduler.body
               /\ scheduler'.isRunning
               /\ proc' = proc
               /\ price_migrations' = price_migrations]_vars

(* the startup check fired while the run started by the cron tick was      *)
(* waiting for executeMigration, and returned at once                      *)
C29_Witness ==
    /\ scheduler.startup = "skipped"
    /\ scheduler.isRunning
    /\ scheduler.body["cron"].pc = "alert"
    /\ scheduler.body["startup"] = IdleBody
    /\ proc["sched"].op = "execute" /\ proc["sched"].pc # "idle"

(* C30: every processPendingMigrations run that set isRunning = true       *)
(* resets it to false.                                                     *)
C30_GuardReleased == scheduler.isRunning ~> ~scheduler.isRunning

(* a run has executed a due migration and released the flag; the startup   *)
(* check, skipped meanwhile, left no body behind                           *)
C30_Witness ==
    /\ ~scheduler.isRunning
    /\ \A t \in Triggers : scheduler.body[t] = IdleBody
    /\ scheduler.startup = "skipped"
    /\ proc["sched"].op = "execute" /\ proc["sched"].pc = "idle"
    /\ proc["sched"].result.success

----------------------------------------------------------------------------
(* Properties of the usage consolidator *)

UsageOf(table, s) == {x \in table : x.session_id = s}

(* SUM(character_count) over a session's rows; a null counts for nothing *)
SessionTotal(table, s) ==
    SumOf([x \in UsageOf(table, s) |-> OrZero(x.character_count)], UsageOf(table, s))

MidReplace(s) == \E r \in RunIds : run[r].pc = "insert" /\ CurrentSession(r) = s

(* C3: outside the delete/insert of a run that is processing it, every     *)
(* session's rows sum to the character_count total they had before any     *)
(* consolidateOldSessions run.                                             *)
C3_SumPreserved ==
    \A s \in SessionIds :
        ~MidReplace(s)
          => SessionTotal(translation_usage, s) = SessionTotal(InitialUsage(seed), s)

(* distinct language values, a null counted as "unknown" *)
DistinctLanguages(rows) ==
    {IF x.language = Null THEN "unknown" ELSE x.language : x \in rows}

(* C4: consolidateOldSessions deletes or inserts rows of a session only    *)
(* when it read more than 5 unconsolidated rows for it; it then deletes    *)
(* only rows it read and inserts at most as many rows as those rows have   *)
(* distinct languages (null counted as "unknown"), each with               *)
(* is_consolidated = true.                                                 *)
C4_SkipThreshold ==
    [][\A s \in SessionIds :
          UsageOf(translation_usage', s) # UsageOf(translation_usage, s)
            => \E r \in RunIds :
                 /\ run'[r] # run[r]
                 /\ CurrentSession(r) = s
                 /\ Cardinality(run[r].rows) > 5
                 /\ UsageOf(translation_usage, s) \ UsageOf(translation_usage', s)
                        \subseteq run[r].rows
                 /\ Cardinality(UsageOf(translation_usage', s) \ UsageOf(translation_usage, s))
                        <= Cardinality(DistinctLanguages(run[r].rows))
                 /\ \A x \in UsageOf(translation_usage', s) \ UsageOf(translation_usage, s) :
                        x.is_consolidated]_vars

(* a run has returned: it replaced the 6 rows of s1 (null, "unknown", es)  *)
(* by 2 consolidated rows and left the 5 rows of s2 as they were           *)
C4_Witness ==
    /\ seed.n1 = 6 /\ seed.n2 = 5 /\ seed.pattern = 2
    /\ \E r \in RunIds : /\ run[r].pc = "idle" /\ run[r].returned = "totals"
                         /\ run[r].consolidated = 1 /\ run[r].rowsRemoved = 6
                         /\ run[r].rowsCreated = 2
    /\ UsageOf(translation_usage, "s2") = UsageOf(InitialUsage(seed), "s2")
    /\ Cardinality(UsageOf(translation_usage, "s1")) = 2
    /\ \A x \in UsageOf(translation_usage, "s1") : x.is_consolidated

(* C23: consolidateOldSessions never deletes or modifies a row whose       *)
(* is_consolidated flag is true; a session whose rows are all consolidated *)
(* is skipped when a later run reads it: its rows stay as they are and the *)
(* run's consolidated, rowsRemoved and rowsCreated do not count it.        *)
C23_ConsolidatedRowsTerminal ==
    [][/\ \A x \in translation_usage : x.is_consolidated => x \in translation_usage'
       /\ \A r \in RunIds :
            (/\ ConsCheck(r)
             /\ UsageOf(translation_usage, CurrentSession(r)) # {}
             /\ \A x \in UsageOf(translation_usage, CurrentSession(r)) : x.is_consolidated)
              => /\ run'[r].pc # "delete"
                 /\ run'[r].consolidated = run[r].consolidated
                 /\ run'[r].rowsRemoved = run[r].rowsRemoved
                 /\ run'[r].rowsCreated = run[r].rowsCreated
                 /\ translation_usage' = translation_usage]_vars

(* the cron run has run twice and the manual run never: the first run      *)
(* replaced the 6 rows of s1, in 6 languages, by 6 consolidated rows; the  *)
(* second returned with nothing counted and the 6 rows are still there     *)
C23_Witness ==
    /\ seed.n1 = 6 /\ seed.pattern = 5
    /\ cons_calls = 2 /\ run["manual"] = IdleRun
    /\ run["cron"].returned = "totals"
    /\ run["cron"].consolidated = 0 /\ run["cron"].rowsRemoved = 0
    /\ run["cron"].rowsCreated = 0
    /\ Cardinality(UsageOf(translation_usage, "s1")) = 6
    /\ \A x \in UsageOf(translation_usage, "s1") : x.is_consolidated

(* C24: once a session has a consolidated row and no run is between the    *)
(* delete and the insert for it, all its rows are consolidated and no two  *)
(* of them have the same language.                                         *)
C24_OneRowPerLanguage ==
    \A s \in SessionIds :
        (~MidReplace(s) /\ \E x \in UsageOf(translation_usage, s) : x.is_consolidated)
          => /\ \A x \in UsageOf(translation_usage, s) : x.is_consolidated
             /\ \A x, y \in UsageOf(translation_usage, s) :
                    x.language = y.language => x = y

(* C25: when the insert of a session's replacement rows fails after the    *)
(* delete succeeded, the run goes on to the next session of its batch, or  *)
(* returns its totals after the last one, and counts the session in none   *)
(* of consolidated, rowsRemoved and rowsCreated.                           *)
C25_InsertFailureContinues ==
    [][\A r \in RunIds :
          (ConsInsert(r) /\ translation_usage' = translation_usage)
            => /\ run'[r].consolidated = run[r].consolidated
               /\ run'[r].rowsRemoved = run[r].rowsRemoved
               /\ run'[r].rowsCreated = run[r].rowsCreated
               /\ run'[r].returned # "throw"
               /\ IF run[r].i < Len(run[r].sessions)
                  THEN /\ run'[r].pc = "check"
                       /\ run'[r].sessions = run[r].sessions
                       /\ run'[r].i = run[r].i + 1
                  ELSE /\ run'[r].pc = "idle"
                       /\ run'[r].returned = "totals"]_vars

(* the only run there was has returned its totals: the insert for s1       *)
(* failed after its 6 rows were deleted, and s2 was consolidated after it  *)
C25_Witness ==
    /\ seed.n1 = 6 /\ seed.n2 = 6
    /\ cons_calls = 1 /\ run["manual"] = IdleRun
    /\ run["cron"].returned = "totals"
    /\ run["cron"].consolidated = 1 /\ run["cron"].rowsRemoved = 6
    /\ UsageOf(translation_usage, "s1") = {}
    /\ UsageOf(translation_usage, "s2") # {}
    /\ \A x \in UsageOf(translation_usage, "s2") : x.is_consolidated

(* C27: every completed or recovered session older than the cutoff with   *)
(* more than 5 unconsolidated rows is eventually consolidated: it ends up  *)
(* with consolidated rows and no unconsolidated one.                       *)
C27_EventuallyConsolidated ==
    \A s \in SessionIds :
        (IsCandidate(s) /\ Cardinality(UnconsolidatedRows(translation_usage, s)) > 5)
          ~> (/\ UnconsolidatedRows(translation_usage, s) = {}
              /\ \E x \in UsageOf(translation_usage, s) : x.is_consolidated)

(* C26: whatever the interleaving of the cron run and the manual run, a    *)
(* session's character_count total never exceeds the total it had before   *)
(* any run.                                                                *)
C26_TotalNeverDoubled ==
    \A s \in SessionIds :
        SessionTotal(translation_usage, s) <= SessionTotal(InitialUsage(seed), s)


====
